---- MODULE Spec2Model ----
(***************************************************************************)
(* Year-focus calendar: the month grid builder, the event store queries    *)
(* and the per-week event layout (row packing) of CalendarMonth.tsx and    *)
(* data/events.ts.                                                         *)
(*                                                                         *)
(* A JavaScript string is a sequence of UTF-16 code units, a Date built by *)
(* new Date(y, m, d) is its local day number (days since 1970-01-01), and  *)
(* array indices and columns keep their 0-based JavaScript values.         *)
(***************************************************************************)
EXTENDS Integers, Sequences, FiniteSets, TLC

(***************************************************************************)
(* Bounds of the model.                                                    *)
(***************************************************************************)
\* the page renders YEAR .. YEAR + MaxYearSpan
MaxYearSpan == 2
\* an event store holds at most MaxEvents events of the pool
MaxEvents == 3

(***************************************************************************)
(* Program constants.                                                      *)
(***************************************************************************)
YEAR == 2026
\* the value null of a day cell (days are 1..31)
Null == 0
\* code units of '0' and '-'
CharZero == 48
CharDash == 45

Years == YEAR..(YEAR + MaxYearSpan)
MONTHS == 0..11

(***************************************************************************)
(* Strings.                                                                *)
(***************************************************************************)
RECURSIVE NumberToString(_)
\* String(n) of an integer: its decimal digits, behind a minus sign when n
\* is negative
NumberToString(n) ==
    IF n < 0 THEN <<CharDash>> \o NumberToString(-n)
    ELSE IF n < 10 THEN <<CharZero + n>>
    ELSE Append(NumberToString(n \div 10), CharZero + (n % 10))

\* the string left as it is, no filler added
PadStartNone(s, len, ch) == s

RECURSIVE PadStart(_, _, _)
\* s.padStart(len, ch) with a one-character filler
PadStart(s, len, ch) ==
    IF Len(s) >= len THEN s ELSE PadStart(<<ch>> \o s, len, ch)

RECURSIVE LessFrom(_, _, _)
\* the comparison of a and b from position k on
LessFrom(a, b, k) ==
    IF k > Len(b) THEN FALSE
    ELSE IF k > Len(a) THEN TRUE
    ELSE IF a[k] = b[k] THEN LessFrom(a, b, k + 1)
    ELSE a[k] < b[k]

\* a < b on strings: the first differing code unit decides, a proper prefix
\* is smaller
StrLess(a, b) == LessFrom(a, b, 1)

StrGeq(a, b) == ~StrLess(a, b)
StrLeq(a, b) == ~StrLess(b, a)

(***************************************************************************)
(* Dates: ECMAScript's day arithmetic.                                     *)
(***************************************************************************)
DayFromYear(y) ==
    365 * (y - 1970) + ((y - 1969) \div 4) - ((y - 1901) \div 100)
        + ((y - 1601) \div 400)

InLeapYear(y) ==
    IF y % 4 # 0 THEN 0
    ELSE IF y % 100 # 0 THEN 1
    ELSE IF y % 400 # 0 THEN 0 ELSE 1

\* day within the year on which month m (0-based) starts
MonthStart(m, leap) ==
    CASE m = 0 -> 0
      [] m = 1 -> 31
      [] m = 2 -> 59 + leap
      [] m = 3 -> 90 + leap
      [] m = 4 -> 120 + leap
      [] m = 5 -> 151 + leap
      [] m = 6 -> 181 + leap
      [] m = 7 -> 212 + leap
      [] m = 8 -> 243 + leap
      [] m = 9 -> 273 + leap
      [] m = 10 -> 304 + leap
      [] m = 11 -> 334 + leap
      [] OTHER -> 365 + leap

\* MakeDay(year, month, date): months and days out of range carry over
MakeDay(year, month, date) ==
    LET ym == year + (month \div 12)
        mn == month % 12
    IN  DayFromYear(ym) + MonthStart(mn, InLeapYear(ym)) + date - 1

\* new Date(year, month, day): years 0..99 mean 1900..1999
NewDate(year, month, day) ==
    LET yr == IF year >= 0 /\ year <= 99 THEN 1900 + year ELSE year
    IN  MakeDay(yr, month, day)

RECURSIVE YearDown(_, _)
YearDown(y, t) == IF DayFromYear(y) <= t THEN y ELSE YearDown(y - 1, t)

RECURSIVE YearUp(_, _)
YearUp(y, t) == IF DayFromYear(y + 1) <= t THEN YearUp(y + 1, t) ELSE y

\* YearFromTime: the largest year that starts on or before day t, searched
\* from the year t falls in by the mean length of a year (400 years are
\* 146097 days), first up to a year whose successor starts after t, then
\* down
GetFullYear(t) ==
    YearDown(YearUp(1970 + 400 * (t \div 146097)
                         + ((400 * (t % 146097)) \div 146097), t), t)

\* MonthFromTime, from the day within the year
MonthOfDay(d, leap) ==
    IF d < 31 THEN 0
    ELSE IF d < 59 + leap THEN 1
    ELSE IF d < 90 + leap THEN 2
    ELSE IF d < 120 + leap THEN 3
    ELSE IF d < 151 + leap THEN 4
    ELSE IF d < 181 + leap THEN 5
    ELSE IF d < 212 + leap THEN 6
    ELSE IF d < 243 + leap THEN 7
    ELSE IF d < 273 + leap THEN 8
    ELSE IF d < 304 + leap THEN 9
    ELSE IF d < 334 + leap THEN 10
    ELSE 11

GetMonth(t) ==
    LET y == GetFullYear(t)
    IN  MonthOfDay(t - DayFromYear(y), InLeapYear(y))

\* DateFromTime
GetDate(t) ==
    LET y == GetFullYear(t)
        d == t - DayFromYear(y)
        leap == InLeapYear(y)
    IN  d - MonthStart(MonthOfDay(d, leap), leap) + 1

\* WeekDay: 0 = Sunday; 1970-01-01 was a Thursday
GetDay(t) == (t + 4) % 7

\* the month taken as getMonth() gives it, without the + 1
formatDateStringZeroBasedMonth(date) ==
    LET yr == GetFullYear(date)
        mo == PadStart(NumberToString(GetMonth(date)), 2, CharZero)
        dy == PadStart(NumberToString(GetDate(date)), 2, CharZero)
    IN  NumberToString(yr) \o <<CharDash>> \o mo \o <<CharDash>> \o dy

\* formatDateString(date)
formatDateString(date) ==
    LET yr == GetFullYear(date)
        mo == PadStart(NumberToString(GetMonth(date) + 1), 2, CharZero)
        dy == PadStart(NumberToString(GetDate(date)), 2, CharZero)
    IN  NumberToString(yr) \o <<CharDash>> \o mo \o <<CharDash>> \o dy

(***************************************************************************)
(* The event store (data/events.ts).  An event is [id, start, end]; title, *)
(* color and details take no part in the layout.                           *)
(***************************************************************************)
\* the fixed-width key "YYYY-MM-DD" of a date written in the data file
\* (y of four digits, mo in 1..12, d in 1..31)
Key(y, mo, d) ==
    << CharZero + (y \div 1000), CharZero + ((y \div 100) % 10),
       CharZero + ((y \div 10) % 10), CharZero + (y % 10), CharDash,
       CharZero + (mo \div 10), CharZero + (mo % 10), CharDash,
       CharZero + (d \div 10), CharZero + (d % 10) >>

Event(id, start, end) == [id |-> id, start |-> start, end |-> end]

\* the events array as shipped
ShippedEvents ==
    << Event("misogi-challenge", Key(2026, 3, 1), Key(2026, 6, 30)),
       Event("ultra-prep", Key(2026, 7, 1), Key(2026, 9, 30)),
       Event("first-ultra", Key(2026, 10, 17), Key(2026, 10, 17)),
       Event("recovery-block", Key(2026, 10, 18), Key(2026, 11, 15)),
       Event("year-reflection", Key(2026, 12, 20), Key(2026, 12, 31)),
       Event("base-building", Key(2026, 1, 5), Key(2026, 2, 28)),
       Event("new-year", Key(2026, 1, 1), Key(2026, 1, 1)),
       Event("swim-focus", Key(2026, 2, 9), Key(2026, 2, 15)) >>

\* the string "2026-1-20": a date written without zero padding
UnpaddedKey ==
    << CharZero + 2, CharZero, CharZero + 2, CharZero + 6, CharDash,
       CharZero + 1, CharDash, CharZero + 2, CharZero >>

\* Events an edited data file may hold, in the order of the file: a bar
\* that ends inside the week of 12-18 January 2026, a bar that starts later
\* in that week and runs over two year ends and a leap day, two single-day
\* events on the day that bar starts, and a bar whose end is not zero-padded.
EventPool ==
    << Event("a", Key(2026, 1, 8), Key(2026, 1, 13)),
       Event("b", Key(2026, 1, 15), Key(2028, 3, 1)),
       Event("s", Key(2026, 1, 15), Key(2026, 1, 15)),
       Event("t", Key(2026, 1, 15), Key(2026, 1, 15)),
       Event("m", Key(2026, 1, 5), UnpaddedKey) >>

Reverse(seq) == [i \in 1..Len(seq) |-> seq[Len(seq) + 1 - i]]

\* the selections of n events of the pool, in the order of the pool
Selections(n) ==
    { [i \in 1..n |-> EventPool[pick[i]]] :
        pick \in { f \in [1..n -> 1..Len(EventPool)] :
                     \A i \in 1..n : i < n => f[i] < f[i + 1] } }

\* the stores of at most MaxEvents events of the pool (ids unique), with the
\* events in the order of the pool or in the opposite order
PoolStores ==
    UNION { Selections(n) \cup { Reverse(sel) : sel \in Selections(n) } :
              n \in 0..MaxEvents }

\* a store whose first event has its start after its end
InvertedStore ==
    << Event("x", Key(2026, 1, 20), Key(2026, 1, 10)),
       Event("s", Key(2026, 1, 15), Key(2026, 1, 15)) >>

EventStores == PoolStores \cup {ShippedEvents, InvertedStore}

(***************************************************************************)
(* State.                                                                  *)
(***************************************************************************)
VARIABLES
    phase,    \* "boot" until the events module is evaluated, then "ready"
    events,   \* the events array of data/events.ts
    year,     \* the year prop Index passes to every CalendarMonth
    month,    \* the month prop of the latest CalendarMonth render, -1 before
    dom,      \* month |-> what CalendarMonth rendered for it
    call,     \* the latest call of a helper of data/events.ts by other code
    today,    \* new Date() as Index mounts: [year, month]
    timer,    \* the auto-scroll timeout: "pending", "fired" or "cleared"
    mounted,  \* Index is mounted: its scroll listener is subscribed
    scrollY,        \* window.scrollY
    innerHeight,    \* window.innerHeight
    scrollPending,  \* the window has a scroll event to dispatch
    currentMonth,   \* the state currentMonth of Index
    renderedMonth,  \* the currentMonth of the latest render of Index
    handlerMonth    \* the currentMonth the subscribed handleScroll closed over

calendarVars == <<phase, events, year, month, dom>>
pageVars ==
    <<today, timer, mounted, scrollY, innerHeight, scrollPending,
      currentMonth, renderedMonth, handlerMonth>>
vars == <<calendarVars, call, pageVars>>

(***************************************************************************)
(* data/events.ts                                                          *)
(***************************************************************************)
\* the range test with the end date left out
InRangeOpenEnd(dateStr, event) ==
    StrGeq(dateStr, event.start) /\ StrLess(dateStr, event.end)

InRange(dateStr, event) ==
    StrGeq(dateStr, event.start) /\ StrLeq(dateStr, event.end)

\* getEventsForDate(date): events.filter keeps the store's order
getEventsForDate(date) ==
    LET dateStr == formatDateString(date)
    IN  SelectSeq(events, LAMBDA event : InRange(dateStr, event))

\* isMultiDayEvent(event)
isMultiDayEvent(event) == event.start # event.end

\* the test for 'start' made before the test for 'single'
getEventPositionStartFirst(event, date) ==
    LET dateStr == formatDateString(date)
    IN  IF dateStr = event.start THEN "start"
        ELSE IF event.start = event.end THEN "single"
        ELSE IF dateStr = event.end THEN "end"
        ELSE "middle"

\* getEventPosition(event, date)
getEventPosition(event, date) ==
    LET dateStr == formatDateString(date)
    IN  IF event.start = event.end THEN "single"
        ELSE IF dateStr = event.start THEN "start"
        ELSE IF dateStr = event.end THEN "end"
        ELSE "middle"

(***************************************************************************)
(* CalendarMonth.tsx: getEventBlocksForWeek                                *)
(***************************************************************************)
\* weekDays[i] of the 0-based JavaScript array
At(arr, i) == arr[i + 1]

RECURSIVE FindFirstValid(_, _)
\* weekDays.findIndex(d => d !== null), from index i on
FindFirstValid(weekDays, i) ==
    IF i >= Len(weekDays) THEN -1
    ELSE IF At(weekDays, i) # Null THEN i
    ELSE FindFirstValid(weekDays, i + 1)

NoSpan == [startCol |-> -1, endCol |-> -1, isStart |-> FALSE, isEnd |-> FALSE]

RECURSIVE ScanSpanEndAtFirst(_, _, _, _, _, _)
\* the scan with isEnd assigned inside the if (startCol === -1) branch only
ScanSpanEndAtFirst(i, sp, event, weekDays, y, m) ==
    IF i >= 7 THEN sp
    ELSE IF At(weekDays, i) = Null
    THEN ScanSpanEndAtFirst(i + 1, sp, event, weekDays, y, m)
    ELSE
      LET cellDateStr == formatDateString(NewDate(y, m, At(weekDays, i)))
      IN  IF StrGeq(cellDateStr, event.start) /\ StrLeq(cellDateStr, event.end)
          THEN ScanSpanEndAtFirst(i + 1,
                 [startCol |-> IF sp.startCol = -1 THEN i ELSE sp.startCol,
                  isStart  |-> IF sp.startCol = -1
                               THEN cellDateStr = event.start ELSE sp.isStart,
                  endCol   |-> i,
                  isEnd    |-> IF sp.startCol = -1
                               THEN cellDateStr = event.end ELSE sp.isEnd],
                 event, weekDays, y, m)
          ELSE ScanSpanEndAtFirst(i + 1, sp, event, weekDays, y, m)

RECURSIVE ScanSpanRestart(_, _, _, _, _, _)
\* the scan with the if (startCol === -1) test missing: every matching cell
\* sets startCol and isStart anew
ScanSpanRestart(i, sp, event, weekDays, y, m) ==
    IF i >= 7 THEN sp
    ELSE IF At(weekDays, i) = Null
    THEN ScanSpanRestart(i + 1, sp, event, weekDays, y, m)
    ELSE
      LET cellDateStr == formatDateString(NewDate(y, m, At(weekDays, i)))
      IN  IF StrGeq(cellDateStr, event.start) /\ StrLeq(cellDateStr, event.end)
          THEN ScanSpanRestart(i + 1,
                 [startCol |-> i,
                  isStart  |-> cellDateStr = event.start,
                  endCol   |-> i,
                  isEnd    |-> cellDateStr = event.end],
                 event, weekDays, y, m)
          ELSE ScanSpanRestart(i + 1, sp, event, weekDays, y, m)

RECURSIVE ScanSpan(_, _, _, _, _, _)
\* the loop for (i = 0; i < 7; i++) that finds where the event starts and
\* ends within the week
ScanSpan(i, sp, event, weekDays, y, m) ==
    IF i >= 7 THEN sp
    ELSE IF At(weekDays, i) = Null THEN ScanSpan(i + 1, sp, event, weekDays, y, m)
    ELSE
      LET cellDateStr == formatDateString(NewDate(y, m, At(weekDays, i)))
      IN  IF StrGeq(cellDateStr, event.start) /\ StrLeq(cellDateStr, event.end)
          THEN ScanSpan(i + 1,
                 [startCol |-> IF sp.startCol = -1 THEN i ELSE sp.startCol,
                  isStart  |-> IF sp.startCol = -1
                               THEN cellDateStr = event.start ELSE sp.isStart,
                  endCol   |-> i,
                  isEnd    |-> cellDateStr = event.end],
                 event, weekDays, y, m)
          ELSE ScanSpan(i + 1, sp, event, weekDays, y, m)

\* the overlap test failing for ranges that share one boundary column
ColumnsOverlapStrict(b, startCol, endCol) ==
    ~(b.endCol <= startCol \/ b.startCol >= endCol)

\* the filter of usedRows: b and [startCol, endCol] overlap in columns
ColumnsOverlap(b, startCol, endCol) ==
    ~(b.endCol < startCol \/ b.startCol > endCol)

\* usedRows taken from every block placed so far, overlapping or not
UsedRowsOfAll(blocks, startCol, endCol) ==
    { blocks[k].row : k \in 1..Len(blocks) }

\* usedRows: the rows of the blocks placed so far that overlap the span
UsedRows(blocks, startCol, endCol) ==
    { blocks[k].row : k \in { k \in 1..Len(blocks) :
                                ColumnsOverlap(blocks[k], startCol, endCol) } }

\* the row left at its start value, the while loop missing
FirstFreeRowNoLoop(usedRows, row) == row

RECURSIVE FirstFreeRow(_, _)
\* let row = 0; while (usedRows.includes(row)) row++
FirstFreeRow(usedRows, row) ==
    IF row \in usedRows THEN FirstFreeRow(usedRows, row + 1) ELSE row

\* the body of dayEvents.forEach without the processedEvents test
PlaceEventNoDedup(st, event, weekDays, y, m, firstValidIdx) ==
    LET sp == ScanSpan(0, NoSpan, event, weekDays, y, m)
    IN  IF sp.startCol = -1 THEN st
        ELSE
          LET row == FirstFreeRow(UsedRows(st.blocks, sp.startCol, sp.endCol), 0)
          IN  [blocks |-> Append(st.blocks,
                            [event |-> event,
                             startCol |-> sp.startCol,
                             endCol |-> sp.endCol,
                             row |-> row,
                             isStart |-> sp.isStart,
                             isEnd |-> sp.isEnd]),
               processedEvents |-> st.processedEvents]

\* the body of dayEvents.forEach: st = [blocks, processedEvents]
PlaceEvent(st, event, weekDays, y, m, firstValidIdx) ==
    LET weekKey == <<event.id, At(weekDays, firstValidIdx)>>
    IN  IF weekKey \in st.processedEvents THEN st
        ELSE
          LET sp == ScanSpan(0, NoSpan, event, weekDays, y, m)
              processed == st.processedEvents \cup {weekKey}
          IN  IF sp.startCol = -1
              THEN [blocks |-> st.blocks, processedEvents |-> processed]
              ELSE
                LET row == FirstFreeRow(
                             UsedRows(st.blocks, sp.startCol, sp.endCol), 0)
                IN  [blocks |-> Append(st.blocks,
                                  [event |-> event,
                                   startCol |-> sp.startCol,
                                   endCol |-> sp.endCol,
                                   row |-> row,
                                   isStart |-> sp.isStart,
                                   isEnd |-> sp.isEnd]),
                     processedEvents |-> processed]

RECURSIVE ForEachEventBackwards(_, _, _, _, _, _, _)
\* the events of the day taken last to first
ForEachEventBackwards(st, dayEvents, k, weekDays, y, m, firstValidIdx) ==
    IF k > Len(dayEvents) THEN st
    ELSE ForEachEventBackwards(
           PlaceEvent(st, dayEvents[Len(dayEvents) + 1 - k], weekDays, y, m,
                      firstValidIdx),
           dayEvents, k + 1, weekDays, y, m, firstValidIdx)

RECURSIVE ForEachEvent(_, _, _, _, _, _, _)
\* dayEvents.forEach(event => ...), from index k on
ForEachEvent(st, dayEvents, k, weekDays, y, m, firstValidIdx) ==
    IF k > Len(dayEvents) THEN st
    ELSE ForEachEvent(PlaceEvent(st, dayEvents[k], weekDays, y, m, firstValidIdx),
                      dayEvents, k + 1, weekDays, y, m, firstValidIdx)

RECURSIVE ForEachDay(_, _, _, _, _, _)
\* weekDays.forEach((day, colIndex) => ...), from column colIndex on
ForEachDay(st, colIndex, weekDays, y, m, firstValidIdx) ==
    IF colIndex >= Len(weekDays) THEN st
    ELSE IF At(weekDays, colIndex) = Null
    THEN ForEachDay(st, colIndex + 1, weekDays, y, m, firstValidIdx)
    ELSE
      LET date == NewDate(y, m, At(weekDays, colIndex))
          dayEvents == getEventsForDate(date)
      IN  ForEachDay(ForEachEvent(st, dayEvents, 1, weekDays, y, m, firstValidIdx),
                     colIndex + 1, weekDays, y, m, firstValidIdx)

RECURSIVE InsertByRow(_, _)
\* b goes behind every block whose row is not larger: the sort is stable
InsertByRow(sorted, b) ==
    IF sorted = <<>> THEN <<b>>
    ELSE IF sorted[Len(sorted)].row <= b.row THEN Append(sorted, b)
    ELSE Append(InsertByRow(SubSeq(sorted, 1, Len(sorted) - 1), b),
                sorted[Len(sorted)])

RECURSIVE SortByRow(_)
\* blocks.sort((a, b) => a.row - b.row)
SortByRow(blocks) ==
    IF blocks = <<>> THEN <<>>
    ELSE InsertByRow(SortByRow(SubSeq(blocks, 1, Len(blocks) - 1)),
                     blocks[Len(blocks)])

\* processedEvents declared once for the module instead of in the function:
\* as a call starts it holds the week keys of the calls before it, which are
\* the keys of the blocks of the renders so far (every event met has a span)
NewCallSharedProcessedEvents ==
    [blocks |-> <<>>,
     processedEvents |->
        UNION { UNION { { <<dom[mo].rows[w].eventBlocks[i].event.id,
                            At(dom[mo].weeks[w], FindFirstValid(dom[mo].weeks[w], 0))>> :
                          i \in 1..Len(dom[mo].rows[w].eventBlocks) } :
                        w \in 1..Len(dom[mo].weeks) } :
                mo \in DOMAIN dom }]

\* the locals blocks and processedEvents as a call starts
NewCall == [blocks |-> <<>>, processedEvents |-> {}]

getEventBlocksForWeek(weekDays, y, m) ==
    LET firstValidIdx == FindFirstValid(weekDays, 0)
    IN  IF firstValidIdx = -1 THEN <<>>
        ELSE SortByRow(ForEachDay(NewCall, 0, weekDays, y, m, firstValidIdx).blocks)

\* the single-day list without its filter
getSingleDayEventsUnfiltered(date) == getEventsForDate(date)

\* getSingleDayEventsForDate(date)
getSingleDayEventsForDate(date) ==
    SelectSeq(getEventsForDate(date), LAMBDA event : event.start = event.end)

(***************************************************************************)
(* CalendarMonth.tsx: the month grid and the render of one month           *)
(***************************************************************************)
\* the last day taken of the month before: new Date(year, month, 0)
daysInMonthOfPrevious(y, m) == GetDate(NewDate(y, m, 0))

daysInMonth(y, m) == GetDate(NewDate(y, m + 1, 0))

\* the weekday of the 1st as getDay gives it, Sunday first
startingDayOfWeekSundayFirst(y, m) == GetDay(NewDate(y, m, 1))

startingDayOfWeek(y, m) ==
    LET dayOfWeek == GetDay(NewDate(y, m, 1))
    IN  IF dayOfWeek = 0 THEN 6 ELSE dayOfWeek - 1

RECURSIVE FillWeek(_)
\* while (days.length % 7 !== 0) days.push(null)
FillWeek(days) ==
    IF Len(days) % 7 # 0 THEN FillWeek(Append(days, Null)) ELSE days

\* the days array: leading nulls, the day numbers, trailing nulls
BuildDays(y, m) ==
    FillWeek([i \in 1..startingDayOfWeek(y, m) |-> Null]
             \o [day \in 1..daysInMonth(y, m) |-> day])

\* days.slice(i, j) of the 0-based array: j is cut at the length
Slice(arr, i, j) == SubSeq(arr, i + 1, IF j > Len(arr) THEN Len(arr) ELSE j)

\* for (i = 0; i < days.length; i += 7) weeks.push(days.slice(i, i + 7))
BuildWeeks(days) ==
    [w \in 1..((Len(days) + 6) \div 7) |-> Slice(days, 7 * (w - 1), 7 * (w - 1) + 7)]

\* the filter by width alone
IsBarByWidth(b) == b.startCol # b.endCol

\* multiDayBlocks: the blocks drawn as bars
IsBar(b) == b.startCol # b.endCol \/ ~b.isStart \/ ~b.isEnd

\* what one week row of the month shows
RenderWeek(week, y, m) ==
    LET eventBlocks == getEventBlocksForWeek(week, y, m)
    IN  [eventBlocks |-> eventBlocks,
         multiDayBlocks |-> SelectSeq(eventBlocks, IsBar),
         singleDayEvents |->
             [c \in 1..Len(week) |->
                 IF week[c] = Null THEN <<>>
                 ELSE getSingleDayEventsForDate(NewDate(y, m, week[c]))]]

\* the render of CalendarMonth({year, month})
RenderMonth(y, m) ==
    LET weeks == BuildWeeks(BuildDays(y, m))
    IN  [weeks |-> weeks,
         rows |-> [w \in 1..Len(weeks) |-> RenderWeek(weeks[w], y, m)]]

(***************************************************************************)
(* Actions.                                                                *)
(***************************************************************************)
\* no helper has been called
NoCall == [fn |-> "none"]

\* heights of the window, in pixels
ViewportHeights == {600, 900}

\* useState(0), the timeout not yet fired, the window at the top
PageStart ==
    /\ timer = "pending"
    /\ mounted = TRUE
    /\ scrollY = 0
    /\ scrollPending = FALSE
    /\ currentMonth = 0
    /\ renderedMonth = 0
    /\ handlerMonth = 0

Init ==
    /\ phase = "boot"
    /\ events = <<>>
    /\ year \in Years
    /\ month = -1
    /\ dom = <<>>
    /\ call = NoCall
    /\ PageStart
    /\ today = [year |-> YEAR, month |-> 0]
    /\ innerHeight = 600

\* the module data/events.ts is evaluated: the array is taken as written
LoadEvents(store) ==
    /\ phase = "boot"
    /\ phase' = "ready"
    /\ events' = store
    /\ UNCHANGED <<year, month, dom, call, pageVars>>

\* Index renders MONTHS.map(month => <CalendarMonth year month />) in order,
\* and again from the first month on every re-render
CalendarMonth(m) ==
    /\ phase = "ready"
    /\ m = (month + 1) % 12
    /\ month' = m
    /\ dom' = [k \in DOMAIN dom \cup {m} |->
                 IF k = m THEN RenderMonth(year, m) ELSE dom[k]]
    /\ UNCHANGED <<phase, events, year, call, pageVars>>

Next ==
    \/ \E store \in EventStores : LoadEvents(store)
    \/ \E m \in MONTHS : CalendarMonth(m)

Spec == Init /\ [][Next]_vars

(***************************************************************************)
(* The helpers of data/events.ts called on their own: formatDateString on  *)
(* two dates and getEventPosition on an event and a date.                  *)
(***************************************************************************)
\* calendar dates <<year, month (0-based), day>> over the four-digit years,
\* among them the dates the events of the pool start and end on
HelperDates ==
    {1000, YEAR, YEAR + 2, 9999}
        \X { <<0, 5>>, <<0, 8>>, <<0, 13>>, <<0, 15>>, <<0, 20>>, <<2, 1>>,
             <<9, 17>>, <<11, 31>> }

DateOf(c) == NewDate(c[1], c[2][1], c[2][2])

\* the events of every store of the model
HelperEvents ==
    UNION { { store[i] : i \in 1..Len(store) } : store \in EventStores }

InitHelpers ==
    /\ phase = "boot"
    /\ events = <<>>
    /\ year = YEAR
    /\ month = -1
    /\ dom = <<>>
    /\ call = NoCall
    /\ PageStart
    /\ today = [year |-> YEAR, month |-> 0]
    /\ innerHeight = 600

\* formatDateString(new Date(...)) for two dates
FormatDates(c1, c2) ==
    /\ call = NoCall
    /\ call' = [fn |-> "formatDateString", c1 |-> c1, c2 |-> c2,
                key1 |-> formatDateString(DateOf(c1)),
                key2 |-> formatDateString(DateOf(c2))]
    /\ UNCHANGED <<calendarVars, pageVars>>

\* getEventPosition(event, new Date(...))
GetEventPosition(event, c) ==
    /\ call = NoCall
    /\ call' = [fn |-> "getEventPosition", event |-> event, c |-> c,
                position |-> getEventPosition(event, DateOf(c))]
    /\ UNCHANGED <<calendarVars, pageVars>>

\* the call returns to its caller
Return ==
    /\ call # NoCall
    /\ call' = NoCall
    /\ UNCHANGED <<calendarVars, pageVars>>

NextHelpers ==
    \/ \E c1, c2 \in HelperDates : FormatDates(c1, c2)
    \/ \E event \in HelperEvents, c \in HelperDates : GetEventPosition(event, c)
    \/ Return

SpecHelpers == InitHelpers /\ [][NextHelpers]_vars

(***************************************************************************)
(* Index.tsx: the page state currentMonth under the auto-scroll timer and  *)
(* the scroll listener.  Scroll positions are pixels in steps of a half    *)
(* of the window height.                                                   *)
(***************************************************************************)
\* the farthest scroll position, in halves of the window height
MaxHalfScreens == 25

ScrollPositions(h) == { k * (h \div 2) : k \in 0..MaxHalfScreens }

\* the dates new Date() gives as the page loads: [year, month]
Todays ==
    { [year |-> YEAR - 1, month |-> 6], [year |-> YEAR, month |-> 6],
      [year |-> YEAR, month |-> 11] }

\* Math.round(s / v) for s >= 0 and v > 0: halves go up
MathRound(s, v) == (2 * s + v) \div (2 * v)

Min2(a, b) == IF a < b THEN a ELSE b
Max2(a, b) == IF a > b THEN a ELSE b

estimatedMonth(y, viewportHeight) == MathRound(y, viewportHeight)

clampedMonth(y, viewportHeight) ==
    Max2(0, Min2(11, estimatedMonth(y, viewportHeight)))

targetMonth == IF today.year = YEAR THEN today.month ELSE 0

InitPage ==
    /\ phase = "boot"
    /\ events = <<>>
    /\ year = YEAR
    /\ month = -1
    /\ dom = <<>>
    /\ call = NoCall
    /\ PageStart
    /\ today \in Todays
    /\ innerHeight \in ViewportHeights

\* the callback of setTimeout(..., 100): the element month-<targetMonth> is
\* always in the document; scrollIntoView moves the window to its top, y,
\* which lies below targetMonth sections of at least one window height each
AutoScroll(y) ==
    /\ mounted
    /\ timer = "pending"
    /\ y >= targetMonth * innerHeight
    /\ timer' = "fired"
    /\ scrollY' = y
    /\ scrollPending' = (scrollPending \/ y # scrollY)
    /\ currentMonth' = targetMonth
    /\ UNCHANGED <<calendarVars, call, today, mounted, innerHeight,
                   renderedMonth, handlerMonth>>

\* the user scrolls the window: the browser queues a scroll event
UserScroll(y) ==
    /\ mounted
    /\ y # scrollY
    /\ scrollY' = y
    /\ scrollPending' = TRUE
    /\ UNCHANGED <<calendarVars, call, today, timer, mounted, innerHeight,
                   currentMonth, renderedMonth, handlerMonth>>

\* the listener handleScroll runs on the queued scroll event; it compares
\* with the currentMonth of the render that subscribed it
handleScroll ==
    /\ mounted
    /\ scrollPending
    /\ scrollPending' = FALSE
    /\ currentMonth' = IF clampedMonth(scrollY, innerHeight) # handlerMonth
                       THEN clampedMonth(scrollY, innerHeight)
                       ELSE currentMonth
    /\ UNCHANGED <<calendarVars, call, today, timer, mounted, scrollY,
                   innerHeight, renderedMonth, handlerMonth>>

\* Index renders again after setCurrentMonth changed the state: the render
\* fixes the currentMonth its handleScroll closes over.  An effect still
\* pending from the render before runs first.
Render ==
    /\ mounted
    /\ renderedMonth # currentMonth
    /\ handlerMonth' = renderedMonth
    /\ renderedMonth' = currentMonth
    /\ UNCHANGED <<calendarVars, call, today, timer, mounted, scrollY,
                   innerHeight, scrollPending, currentMonth>>

\* the effect with deps [currentMonth] runs after a render with a new
\* currentMonth: the old listener is removed, the one of that render is
\* subscribed
Resubscribe ==
    /\ mounted
    /\ handlerMonth # renderedMonth
    /\ handlerMonth' = renderedMonth
    /\ UNCHANGED <<calendarVars, call, today, timer, mounted, scrollY,
                   innerHeight, scrollPending, currentMonth, renderedMonth>>

\* the page unmounts: both effects clean up
Unmount ==
    /\ mounted
    /\ mounted' = FALSE
    /\ timer' = IF timer = "pending" THEN "cleared" ELSE timer
    /\ UNCHANGED <<calendarVars, call, today, scrollY, innerHeight,
                   scrollPending, currentMonth, renderedMonth, handlerMonth>>

NextPage ==
    \/ \E y \in ScrollPositions(innerHeight) : AutoScroll(y)
    \/ \E y \in ScrollPositions(innerHeight) : UserScroll(y)
    \/ handleScroll
    \/ Render
    \/ Resubscribe
    \/ Unmount

SpecPage == InitPage /\ [][NextPage]_vars

(***************************************************************************)
(* Vocabulary of the properties.                                           *)
(***************************************************************************)
\* a month has been rendered
Rendered == month \in DOMAIN dom

\* the latest render
Lay == dom[month]

\* the segments returned for week w of a rendered month
Segs(lay, w) == lay.rows[w].eventBlocks

WeekIdx(lay) == 1..Len(lay.weeks)

\* the columns a segment covers
Cols(b) == { c \in 0..6 : b.startCol <= c /\ c <= b.endCol }

\* lexicographic order of strings, stated by the first differing position
LexLess(a, b) ==
    \E k \in 1..(Len(b)) :
        /\ \A j \in 1..(k - 1) : j <= Len(a) /\ a[j] = b[j]
        /\ Len(a) >= k - 1
        /\ (Len(a) < k \/ a[k] < b[k])

LexLeq(a, b) == a = b \/ LexLess(a, b)

\* the calendar: the length of month m (0-based) of year y
IsLeap(y) == (y % 4 = 0 /\ y % 100 # 0) \/ y % 400 = 0

MonthLength(y, m) ==
    IF m = 1 THEN (IF IsLeap(y) THEN 29 ELSE 28)
    ELSE IF m \in {3, 5, 8, 10} THEN 30 ELSE 31

RECURSIVE Flatten(_)
Flatten(seqs) ==
    IF seqs = <<>> THEN <<>> ELSE Head(seqs) \o Flatten(Tail(seqs))

Max(S) == CHOOSE x \in S : \A z \in S : z <= x

(***************************************************************************)
(* C1: in every week of every rendered month grid, for every event store,  *)
(* two distinct segments whose column ranges intersect have different rows. *)
(***************************************************************************)
C1_OverlappingSegmentsDifferInRow ==
    Rendered =>
        \A w \in WeekIdx(Lay) :
            \A i, j \in 1..Len(Segs(Lay, w)) :
                (i # j /\ Cols(Segs(Lay, w)[i]) \cap Cols(Segs(Lay, w)[j]) # {})
                    => Segs(Lay, w)[i].row # Segs(Lay, w)[j].row

\* a week with three segments of which two share a single column only
C1_Witness ==
    /\ Rendered
    /\ \E w \in WeekIdx(Lay) :
          /\ Len(Segs(Lay, w)) >= 3
          /\ \E i, j \in 1..Len(Segs(Lay, w)) :
                /\ i # j
                /\ Cardinality(Cols(Segs(Lay, w)[i]) \cap Cols(Segs(Lay, w)[j])) = 1

(***************************************************************************)
(* C2: the row assignment is minimal: in every week the number of distinct *)
(* rows among the returned segments equals the largest number of segments  *)
(* that cover one same column.                                             *)
(***************************************************************************)
RowsUsed(segs) == { segs[i].row : i \in 1..Len(segs) }

Covering(segs, c) == { i \in 1..Len(segs) : c \in Cols(segs[i]) }

MaxCover(segs) == Max({ Cardinality(Covering(segs, c)) : c \in 0..6 })

C2_RowCountIsMaxOverlap ==
    Rendered =>
        \A w \in WeekIdx(Lay) :
            Cardinality(RowsUsed(Segs(Lay, w))) = MaxCover(Segs(Lay, w))

\* a week where a later segment takes a row over from an earlier one
C2_Witness ==
    /\ Rendered
    /\ \E w \in WeekIdx(Lay) :
          /\ Cardinality(RowsUsed(Segs(Lay, w))) >= 2
          /\ Len(Segs(Lay, w)) > Cardinality(RowsUsed(Segs(Lay, w)))

(***************************************************************************)
(* C3: for every event E of the store and every date D of a rendered       *)
(* month, getEventsForDate(D) contains E if and only if                    *)
(* E.start <= key(D) <= E.end in the lexicographic order of the keys.      *)
(***************************************************************************)
Contains(seq, e) == \E k \in 1..Len(seq) : seq[k] = e

C3_EventsOnDateIffInRange ==
    Rendered =>
        \A d \in 1..MonthLength(year, month) :
            \A i \in 1..Len(events) :
                Contains(getEventsForDate(NewDate(year, month, d)), events[i])
                    <=> ( /\ LexLeq(events[i].start, Key(year, month + 1, d))
                          /\ LexLeq(Key(year, month + 1, d), events[i].end) )

\* a month in which an event of the store ends on a day and is absent from
\* the next, and another event of the store is on no day at all
C3_Witness ==
    /\ Rendered
    /\ \E d \in 1..(MonthLength(year, month) - 1) :
          \E i \in 1..Len(events) :
              /\ events[i].end = Key(year, month + 1, d)
              /\ Contains(getEventsForDate(NewDate(year, month, d)), events[i])
              /\ ~Contains(getEventsForDate(NewDate(year, month, d + 1)), events[i])
    /\ \E i \in 1..Len(events) :
          \A d \in 1..MonthLength(year, month) :
              ~Contains(getEventsForDate(NewDate(year, month, d)), events[i])

(***************************************************************************)
(* C4: for every (year, month) the month grid, flattened week by week,     *)
(* holds each day 1..daysInMonth exactly once and in increasing order, its *)
(* cell count is a multiple of 7 and every week has exactly 7 cells.       *)
(***************************************************************************)
C4_GridHoldsEachDayOnce ==
    Rendered =>
        LET flat == Flatten(Lay.weeks)
        IN  /\ SelectSeq(flat, LAMBDA cell : cell # Null)
                 = [d \in 1..MonthLength(year, month) |-> d]
            /\ Len(flat) % 7 = 0
            /\ \A w \in WeekIdx(Lay) : Len(Lay.weeks[w]) = 7

\* the February of a leap year, with blanks before the 1st and after the 29th
C4_Witness ==
    /\ Rendered
    /\ month = 1
    /\ MonthLength(year, month) = 29
    /\ Lay.weeks[1][1] = Null
    /\ Lay.weeks[Len(Lay.weeks)][7] = Null

(***************************************************************************)
(* C5: with the shipped store, in the grids of March to June 2026 every    *)
(* week that holds a day has a segment of the event 2026-03-01..2026-06-30; *)
(* its segment in the week of March 1 has isStart, its segment in the week *)
(* of June 30 has isEnd, and its segments in all the weeks in between have *)
(* neither.                                                                *)
(***************************************************************************)
Misogi == ShippedEvents[1]

HasDay(week, d) == \E c \in 1..7 : week[c] = d

SegsOf(lay, w, e) ==
    { i \in 1..Len(Segs(lay, w)) : Segs(lay, w)[i].event = e }

C5_MisogiSegments ==
    (events = ShippedEvents /\ year = YEAR) =>
        \A mo \in DOMAIN dom \cap 2..5 :
            \A w \in WeekIdx(dom[mo]) :
                LET week == dom[mo].weeks[w]
                    first == mo = 2 /\ HasDay(week, 1)
                    last == mo = 5 /\ HasDay(week, 30)
                IN  /\ (\E c \in 1..7 : week[c] # Null) => SegsOf(dom[mo], w, Misogi) # {}
                    /\ \A i \in SegsOf(dom[mo], w, Misogi) :
                          /\ first => Segs(dom[mo], w)[i].isStart
                          /\ last => Segs(dom[mo], w)[i].isEnd
                          /\ (~first /\ ~last) =>
                                (~Segs(dom[mo], w)[i].isStart /\ ~Segs(dom[mo], w)[i].isEnd)

\* March to June 2026 are rendered from the shipped store, and the last week
\* of June holds the 29th and the 30th only
C5_Witness ==
    /\ events = ShippedEvents
    /\ year = YEAR
    /\ 2..5 \subseteq DOMAIN dom
    /\ \E w \in WeekIdx(dom[5]) :
          /\ dom[5].weeks[w] = <<29, 30, Null, Null, Null, Null, Null>>
          /\ \E i \in SegsOf(dom[5], w, Misogi) : Segs(dom[5], w)[i].endCol = 1

(***************************************************************************)
(* C6: with the shipped store, in the week of 9-15 February 2026 the       *)
(* segments of base-building (2026-01-05..2026-02-28) and of swim-focus    *)
(* (2026-02-09..2026-02-15) overlap in columns and have the rows 0 and 1.  *)
(***************************************************************************)
BaseBuilding == ShippedEvents[6]
SwimFocus == ShippedEvents[8]

C6_FebruaryWeekRows ==
    (events = ShippedEvents /\ year = YEAR /\ 1 \in DOMAIN dom) =>
        \E w \in WeekIdx(dom[1]) :
            /\ dom[1].weeks[w] = <<9, 10, 11, 12, 13, 14, 15>>
            /\ \E i \in SegsOf(dom[1], w, BaseBuilding) :
               \E j \in SegsOf(dom[1], w, SwimFocus) :
                  /\ Cols(Segs(dom[1], w)[i]) \cap Cols(Segs(dom[1], w)[j]) # {}
                  /\ Segs(dom[1], w)[i].row = 0
                  /\ Segs(dom[1], w)[j].row = 1
                  /\ SegsOf(dom[1], w, BaseBuilding) = {i}
                  /\ SegsOf(dom[1], w, SwimFocus) = {j}

\* February 2026 is rendered from the shipped store and both events have a
\* segment over the whole week
C6_Witness ==
    /\ events = ShippedEvents
    /\ year = YEAR
    /\ 1 \in DOMAIN dom
    /\ \E w \in WeekIdx(dom[1]) :
          \E i \in SegsOf(dom[1], w, BaseBuilding) :
          \E j \in SegsOf(dom[1], w, SwimFocus) :
              /\ Cols(Segs(dom[1], w)[i]) = 0..6
              /\ Cols(Segs(dom[1], w)[j]) = 0..6

(***************************************************************************)
(* C7: a single-day event whose date lies in the rendered month has, over  *)
(* all the weeks of the grid, exactly one segment; that segment sits on    *)
(* the column of the date alone with isStart and isEnd, and the event is   *)
(* in the single-day list of that day cell and of no other cell.           *)
(***************************************************************************)
\* the (week, column) cells of a grid, columns 0-based
Cells(lay) == WeekIdx(lay) \X (0..6)

\* the single-day events of the store dated on day d of the rendered month
SinglesOn(d) ==
    { i \in 1..Len(events) :
        /\ events[i].start = events[i].end
        /\ events[i].start = Key(year, month + 1, d) }

C7_SingleDayEventInOneCell ==
    Rendered =>
        \A d \in 1..MonthLength(year, month) :
            \A i \in SinglesOn(d) :
                LET e == events[i]
                    at == CHOOSE wc \in Cells(Lay) : Lay.weeks[wc[1]][wc[2] + 1] = d
                    hits == { wk \in WeekIdx(Lay) \X (1..Len(events)) :
                                /\ wk[2] <= Len(Segs(Lay, wk[1]))
                                /\ Segs(Lay, wk[1])[wk[2]].event = e }
                IN  /\ Cardinality(hits) = 1
                    /\ \A wk \in hits :
                          /\ wk[1] = at[1]
                          /\ Segs(Lay, wk[1])[wk[2]].startCol = at[2]
                          /\ Segs(Lay, wk[1])[wk[2]].endCol = at[2]
                          /\ Segs(Lay, wk[1])[wk[2]].isStart
                          /\ Segs(Lay, wk[1])[wk[2]].isEnd
                    /\ \A wc \in Cells(Lay) :
                          Contains(Lay.rows[wc[1]].singleDayEvents[wc[2] + 1], e)
                              <=> wc = at

\* October 2026 is rendered with the single-day event of 2026-10-17 in the
\* store
C7_Witness ==
    /\ Rendered
    /\ year = YEAR
    /\ month = 9
    /\ SinglesOn(17) # {}

(***************************************************************************)
(* C8: the single-day list of every day cell is the sub-sequence of the    *)
(* event store, in the order of the store, of the events that start and    *)
(* end on that date; two single-day events of one date are both in it.     *)
(***************************************************************************)
C8_SingleDayListInStoreOrder ==
    Rendered =>
        \A wc \in Cells(Lay) :
            LET d == Lay.weeks[wc[1]][wc[2] + 1]
            IN  d # Null =>
                  Lay.rows[wc[1]].singleDayEvents[wc[2] + 1]
                    = SelectSeq(events, LAMBDA e :
                          e.start = e.end /\ e.start = Key(year, month + 1, d))

\* a day cell that lists two single-day events of its date and is also
\* covered by a bar
C8_Witness ==
    /\ Rendered
    /\ \E wc \in Cells(Lay) :
          /\ Len(Lay.rows[wc[1]].singleDayEvents[wc[2] + 1]) = 2
          /\ \E i \in 1..Len(Segs(Lay, wc[1])) :
                /\ wc[2] \in Cols(Segs(Lay, wc[1])[i])
                /\ isMultiDayEvent(Segs(Lay, wc[1])[i].event)

IsDigit(ch) == CharZero <= ch /\ ch <= CharZero + 9

IsDateKey(str) ==
    /\ Len(str) = 10
    /\ \A k \in {1, 2, 3, 4, 6, 7, 9, 10} : IsDigit(str[k])
    /\ str[5] = CharDash
    /\ str[8] = CharDash

ValidEvent(e) ==
    /\ IsDateKey(e.start)
    /\ IsDateKey(e.end)
    /\ LexLeq(e.start, e.end)

C10_OnlyValidEventsAreLoaded ==
    phase = "ready" =>
        /\ \A i \in 1..Len(events) : ValidEvent(events[i])
        /\ \A mo \in DOMAIN dom : \A w \in WeekIdx(dom[mo]) :
              \A i \in 1..Len(Segs(dom[mo], w)) : ValidEvent(Segs(dom[mo], w)[i].event)

(***************************************************************************)
(* C11: for two dates with four-digit years formatDateString gives keys of *)
(* ten characters, YYYY-MM-DD with month and day padded to two digits,     *)
(* whose lexicographic order is the chronological order of the dates: the  *)
(* keys are equal exactly for the same day, and smaller exactly for the    *)
(* earlier day.                                                            *)
(***************************************************************************)
\* c1 is an earlier calendar day than c2
Earlier(c1, c2) ==
    \/ c1[1] < c2[1]
    \/ c1[1] = c2[1] /\ c1[2][1] < c2[2][1]
    \/ c1[1] = c2[1] /\ c1[2][1] = c2[2][1] /\ c1[2][2] < c2[2][2]

C11_KeyOrderIsDateOrder ==
    call.fn = "formatDateString" =>
        /\ IsDateKey(call.key1)
        /\ IsDateKey(call.key2)
        /\ LexLess(call.key1, call.key2) <=> Earlier(call.c1, call.c2)
        /\ call.key1 = call.key2 <=> call.c1 = call.c2

\* a day of a one-digit month formatted with a day of a two-digit month of
\* the same year
C11_Witness ==
    /\ call.fn = "formatDateString"
    /\ call.c1[1] = call.c2[1]
    /\ call.c1[2][1] = 2
    /\ call.c2[2][1] = 9
    /\ LexLess(call.key1, call.key2)

(***************************************************************************)
(* C12: getEventPosition returns 'single' when the event starts and ends   *)
(* on one day; otherwise 'start' on the date of event.start, 'end' on the  *)
(* date of event.end and 'middle' on every other date.                     *)
(***************************************************************************)
C12_EventPosition ==
    call.fn = "getEventPosition" =>
        LET e == call.event
            k == Key(call.c[1], call.c[2][1] + 1, call.c[2][2])
        IN  /\ e.start = e.end => call.position = "single"
            /\ (e.start # e.end /\ k = e.start) => call.position = "start"
            /\ (e.start # e.end /\ k = e.end) => call.position = "end"
            /\ (e.start # e.end /\ k # e.start /\ k # e.end)
                  => call.position = "middle"

\* a single-day event asked about on its own date
C12_Witness ==
    /\ call.fn = "getEventPosition"
    /\ call.event.start = call.event.end
    /\ call.event.start = Key(call.c[1], call.c[2][1] + 1, call.c[2][2])
    /\ call.position = "single"

(***************************************************************************)
(* C13: every segment returned for a week has 0 <= startCol <= endCol <= 6; *)
(* the columns of the week whose cell is a day with a date in              *)
(* [event.start, event.end] are exactly the columns startCol..endCol;      *)
(* isStart holds iff the date at startCol is event.start and isEnd holds   *)
(* iff the date at endCol is event.end.                                    *)
(***************************************************************************)
\* a is not after b in the lexicographic order: the strings are equal, or a
\* is a prefix of b, or a has the smaller character at the first position
\* where they differ
NotAfter(a, b) ==
    LET n == IF Len(a) < Len(b) THEN Len(a) ELSE Len(b)
        differ == { k \in 1..n : a[k] # b[k] }
    IN  IF differ = {} THEN Len(a) <= Len(b)
        ELSE \A k \in differ : (\A j \in differ : k <= j) => a[k] < b[k]

\* column c of the week is a day of the rendered month in the range of e
DayInRange(week, c, e) ==
    /\ week[c + 1] # Null
    /\ NotAfter(e.start, Key(year, month + 1, week[c + 1]))
    /\ NotAfter(Key(year, month + 1, week[c + 1]), e.end)

C13_SegmentIsTheFullRun ==
    Rendered =>
        \A w \in WeekIdx(Lay) :
            \A i \in 1..Len(Segs(Lay, w)) :
                LET b == Segs(Lay, w)[i]
                    week == Lay.weeks[w]
                IN  /\ 0 <= b.startCol /\ b.startCol <= b.endCol /\ b.endCol <= 6
                    /\ \A c \in 0..6 : DayInRange(week, c, b.event) <=> c \in Cols(b)
                    /\ b.isStart <=>
                          Key(year, month + 1, week[b.startCol + 1]) = b.event.start
                    /\ b.isEnd <=>
                          Key(year, month + 1, week[b.endCol + 1]) = b.event.end

\* an event that starts in the middle of one week and ends in the middle of
\* the next: the first segment runs from its start to column 6, the second
\* from column 0 to its end
C13_Witness ==
    /\ Rendered
    /\ \E w \in WeekIdx(Lay) :
          /\ w + 1 \in WeekIdx(Lay)
          /\ \E i \in 1..Len(Segs(Lay, w)) :
             \E j \in 1..Len(Segs(Lay, w + 1)) :
                LET b1 == Segs(Lay, w)[i]
                    b2 == Segs(Lay, w + 1)[j]
                IN  /\ b1.event = b2.event
                    /\ b1.startCol > 0 /\ b1.endCol = 6
                    /\ b1.isStart /\ ~b1.isEnd
                    /\ b2.startCol = 0 /\ b2.endCol < 6
                    /\ ~b2.isStart /\ b2.isEnd

(***************************************************************************)
(* C14: in every week, each event of the store (its ids being unique) that *)
(* covers a day cell of the week has exactly one segment in the result of  *)
(* the week, an event that covers none has no segment, and every segment   *)
(* is of an event of the store; so an event that does not intersect the    *)
(* month has no segment in any of its weeks, whatever its year.            *)
(***************************************************************************)
UniqueIds ==
    \A i, j \in 1..Len(events) : events[i].id = events[j].id => i = j

C14_OneSegmentPerEventAndWeek ==
    (Rendered /\ UniqueIds) =>
        \A w \in WeekIdx(Lay) :
            /\ \A k \in 1..Len(events) :
                  Cardinality(SegsOf(Lay, w, events[k]))
                    = IF \E c \in 0..6 : DayInRange(Lay.weeks[w], c, events[k])
                      THEN 1 ELSE 0
            /\ \A i \in 1..Len(Segs(Lay, w)) : Contains(events, Segs(Lay, w)[i].event)

\* a month of the year after YEAR in which one event of the store covers a
\* whole week, seven cells and one segment, and another event of the store,
\* of January of YEAR, has no segment in any week
C14_Witness ==
    /\ Rendered
    /\ UniqueIds
    /\ year = YEAR + 1
    /\ \E w \in WeekIdx(Lay) :
          \E i \in 1..Len(Segs(Lay, w)) : Cols(Segs(Lay, w)[i]) = 0..6
    /\ \E k \in 1..Len(events) :
          /\ events[k].start # events[k].end
          /\ \A w \in WeekIdx(Lay) : SegsOf(Lay, w, events[k]) = {}

(***************************************************************************)
(* C15: the rows of a week are those of greedy first-fit in encounter      *)
(* order: the segments are taken in the order of their first column, left  *)
(* to right, segments of one first column in the order of their events in  *)
(* the store, and each gets the smallest row 0, 1, 2, ... not held by a    *)
(* segment taken before it whose columns overlap its own.                  *)
(***************************************************************************)
\* the place of an event in the store
StoreIdx(e) == CHOOSE k \in 1..Len(events) : events[k] = e

\* segment a is encountered before segment b
Before(a, b) ==
    \/ a.startCol < b.startCol
    \/ a.startCol = b.startCol /\ StoreIdx(a.event) < StoreIdx(b.event)

RECURSIVE EncounterOrder(_, _)
\* the indices S of segs in encounter order
EncounterOrder(S, segs) ==
    IF S = {} THEN <<>>
    ELSE LET i == CHOOSE i \in S : \A j \in S \ {i} : Before(segs[i], segs[j])
         IN  <<i>> \o EncounterOrder(S \ {i}, segs)

RECURSIVE FirstFit(_, _, _)
\* rowOf extended by the rows of the segments of order, one after the other
FirstFit(order, rowOf, segs) ==
    IF order = <<>> THEN rowOf
    ELSE
      LET i == Head(order)
          held == { rowOf[j] : j \in { j \in DOMAIN rowOf :
                                         Cols(segs[j]) \cap Cols(segs[i]) # {} } }
          r == CHOOSE r \in 0..Len(segs) :
                  r \notin held /\ \A q \in 0..(r - 1) : q \in held
      IN  FirstFit(Tail(order), rowOf @@ (i :> r), segs)

C15_RowsAreGreedyFirstFit ==
    (Rendered /\ UniqueIds) =>
        \A w \in WeekIdx(Lay) :
            LET segs == Segs(Lay, w)
                ref == FirstFit(EncounterOrder(1..Len(segs), segs), <<>>, segs)
            IN  \A i \in 1..Len(segs) : segs[i].row = ref[i]

\* a week in which the event later in the store starts on the earlier
\* column and takes row 0, and a week in which two events start on the same
\* column and the one earlier in the store takes row 0
C15_Witness ==
    /\ Rendered
    /\ UniqueIds
    /\ \E w \in WeekIdx(Lay) :
          \E i, j \in 1..Len(Segs(Lay, w)) :
              LET a == Segs(Lay, w)[i]
                  b == Segs(Lay, w)[j]
              IN  /\ StoreIdx(a.event) < StoreIdx(b.event)
                  /\ b.startCol < a.startCol
                  /\ Cols(a) \cap Cols(b) # {}
                  /\ b.row = 0 /\ a.row = 1
    /\ \E w \in WeekIdx(Lay) :
          \E i, j \in 1..Len(Segs(Lay, w)) :
              LET a == Segs(Lay, w)[i]
                  b == Segs(Lay, w)[j]
              IN  /\ StoreIdx(a.event) < StoreIdx(b.event)
                  /\ b.startCol = a.startCol
                  /\ a.row = 0 /\ b.row = 1

(***************************************************************************)
(* C16: for every (year, month) the grid starts with exactly mondayIndex   *)
(* blanks, mondayIndex being the weekday of the 1st counted from Monday =  *)
(* 0 to Sunday = 6; every day d is at the flat index mondayIndex + d - 1,  *)
(* and its column, the index modulo 7, is the weekday of its date counted  *)
(* from Monday.                                                            *)
(***************************************************************************)
\* the weekday of a Gregorian date, Sunday = 0, by the table of month
\* offsets; m is 0-based
MonthOffset == <<0, 3, 2, 5, 0, 3, 5, 1, 4, 6, 2, 4>>

SundayWeekday(y, m, d) ==
    LET yy == IF m < 2 THEN y - 1 ELSE y
    IN  (yy + (yy \div 4) - (yy \div 100) + (yy \div 400) + MonthOffset[m + 1] + d) % 7

MondayWeekday(y, m, d) == (SundayWeekday(y, m, d) + 6) % 7

C16_DaysSitOnTheirWeekdayColumn ==
    Rendered =>
        LET flat == Flatten(Lay.weeks)
            mondayIndex == MondayWeekday(year, month, 1)
        IN  /\ \A k \in 1..mondayIndex : flat[k] = Null
            /\ flat[mondayIndex + 1] # Null
            /\ \A d \in 1..MonthLength(year, month) :
                  /\ flat[mondayIndex + d] = d
                  /\ (mondayIndex + d - 1) % 7 = MondayWeekday(year, month, d)

\* February 2026, whose 1st is a Sunday: six blanks lead the grid
C16_Witness ==
    /\ Rendered
    /\ year = YEAR
    /\ month = 1
    /\ Lay.weeks[1] = <<Null, Null, Null, Null, Null, Null, 1>>

(***************************************************************************)
(* C17: single-day events take no part in the row packing of the bars: in  *)
(* every week the row of each segment of a multi-day event is the row it   *)
(* gets by first-fit among the segments of the multi-day events alone, the *)
(* single-day events taken out of the store, and so the rows of the bars   *)
(* drawn in a week are 0..k-1 with no row left unused.                     *)
(***************************************************************************)
\* the segments of a week that belong to multi-day events
MultiDaySegs(segs) == { i \in 1..Len(segs) : isMultiDayEvent(segs[i].event) }

C17_BarRowsIgnoreSingleDayEvents ==
    (Rendered /\ UniqueIds) =>
        \A w \in WeekIdx(Lay) :
            LET segs == Segs(Lay, w)
                bars == Lay.rows[w].multiDayBlocks
                ref == FirstFit(EncounterOrder(MultiDaySegs(segs), segs), <<>>, segs)
            IN  /\ \A i \in MultiDaySegs(segs) : segs[i].row = ref[i]
                /\ \E k \in 0..Len(bars) : RowsUsed(bars) = 0..(k - 1)

(***************************************************************************)
(* C18: every (event, day) occurrence is drawn exactly once: a segment     *)
(* passes the multiDayBlocks filter iff its event is multi-day, the tile   *)
(* list of a cell holds single-day events only, and for every day cell an  *)
(* event that covers it is drawn there either by a bar over the cell or by *)
(* a tile in the cell, never by both, and an event that does not cover it  *)
(* is drawn there by neither.                                              *)
(***************************************************************************)
\* event e is drawn over column c of week w by a bar
AsBar(lay, w, c, e) ==
    \E i \in 1..Len(lay.rows[w].multiDayBlocks) :
        /\ lay.rows[w].multiDayBlocks[i].event = e
        /\ c \in Cols(lay.rows[w].multiDayBlocks[i])

\* event e is drawn in the cell of column c of week w by a tile
AsTile(lay, w, c, e) == Contains(lay.rows[w].singleDayEvents[c + 1], e)

C18_EachOccurrenceDrawnOnce ==
    (Rendered /\ UniqueIds) =>
        \A w \in WeekIdx(Lay) :
            /\ \A i \in 1..Len(Segs(Lay, w)) :
                  IsBar(Segs(Lay, w)[i]) <=> isMultiDayEvent(Segs(Lay, w)[i].event)
            /\ \A c \in 0..6 :
                  /\ \A i \in 1..Len(Lay.rows[w].singleDayEvents[c + 1]) :
                        ~isMultiDayEvent(Lay.rows[w].singleDayEvents[c + 1][i])
                  /\ \A k \in 1..Len(events) :
                        IF DayInRange(Lay.weeks[w], c, events[k])
                        THEN AsBar(Lay, w, c, events[k]) # AsTile(Lay, w, c, events[k])
                        ELSE ~AsBar(Lay, w, c, events[k]) /\ ~AsTile(Lay, w, c, events[k])

\* a week whose only day cell is covered by a multi-day event, a bar of one
\* column, in a store that also has a single-day event drawn as a tile in a
\* cell under a bar
C18_Witness ==
    /\ Rendered
    /\ UniqueIds
    /\ \E w \in WeekIdx(Lay) :
          \E i \in 1..Len(Lay.rows[w].multiDayBlocks) :
              /\ Lay.rows[w].multiDayBlocks[i].startCol
                    = Lay.rows[w].multiDayBlocks[i].endCol
              /\ isMultiDayEvent(Lay.rows[w].multiDayBlocks[i].event)
    /\ \E mo \in DOMAIN dom : \E w \in WeekIdx(dom[mo]) : \E c \in 0..6 :
          \E j, k \in 1..Len(events) :
              /\ AsTile(dom[mo], w, c, events[j])
              /\ AsBar(dom[mo], w, c, events[k])

(***************************************************************************)
(* C19: under every interleaving of the auto-scroll timer and the scroll   *)
(* events currentMonth is an integer in 0..11; the auto-scroll sets it to  *)
(* the month of today when the year of today is YEAR and to 0 otherwise;   *)
(* and every scroll event sets it to round(scrollY / innerHeight) clamped  *)
(* to 0..11.                                                               *)
(***************************************************************************)
C19_CurrentMonthFollowsScroll ==
    /\ [](currentMonth \in 0..11)
    /\ [][ (\E y \in ScrollPositions(innerHeight) : AutoScroll(y)) =>
              currentMonth' = (IF today.year = YEAR THEN today.month ELSE 0) ]_vars
    /\ [][ handleScroll =>
              currentMonth' = clampedMonth(scrollY, innerHeight) ]_vars

====
